---- MODULE Spec2Model ----
(***************************************************************************)
(* Model of the normalizing-flow estimator: the distribution layers of     *)
(* DistributionLayers.py and the estimator of BayesianNFEstimator.py.      *)
(*                                                                         *)
(* Tensors are modelled by their trailing axis only.  A parameter tensor   *)
(* of trailing size L is the sequence <<0, 1, ..., L-1>> of its own        *)
(* trailing indices, so that every slice taken by the code is the          *)
(* sequence of the indices of the original tensor it reads.  Real-valued   *)
(* hyperparameters (noise stddevs, kl weight) range over small integers.   *)
(***************************************************************************)
EXTENDS Integers, Sequences, FiniteSets, TLC

VARIABLES layer, dist, model, learning_phase, evals, fit, prior_call, posterior_call

vars == <<layer, dist, model, learning_phase, evals, fit, prior_call, posterior_call>>

-----------------------------------------------------------------------------
(* Bounds *)
MaxFlows == 2
MaxDims == 2
MaxTLen == 15
MaxHidden == 2
MaxUnits == 2
MaxEvals == 3
MaxKernel == 4
MaxBias == 2

-----------------------------------------------------------------------------
(* Generic helpers *)

RECURSIVE SumSeq(_)
SumSeq(s) == IF s = <<>> THEN 0 ELSE Head(s) + SumSeq(Tail(s))

Min(a, b) == IF a <= b THEN a ELSE b

\* list(reversed(s))
reversed(s) == [i \in 1..Len(s) |-> s[Len(s) + 1 - i]]

\* t[..., a:b] for 0 <= a, 0 <= b: out-of-range bounds are clamped
PySlice(t, a, b) == SubSeq(t, a + 1, Min(b, Len(t)))

\* t[..., a:]
PySliceFrom(t, a) == SubSeq(t, a + 1, Len(t))

\* a tensor of trailing size L, each entry standing for its own index
Tensor(L) == [i \in 1..L |-> i - 1]

SeqsUpTo(S, n) == UNION {[1..k -> S] : k \in 0..n}

-----------------------------------------------------------------------------
(* normalizing_flows.FLOWS: the registry of flow families *)

FLOWS == {"radial", "planar", "affine"}

get_param_size(flow_type, n_dims) ==
    CASE flow_type = "radial" -> n_dims + 2
      [] flow_type = "planar" -> 2 * n_dims + 1
      [] flow_type = "affine" -> 2 * n_dims

\* names a caller may pass: the registered ones and one that is not
FlowTypeInputs == FLOWS \cup {"sylvester"}

-----------------------------------------------------------------------------
(* DistributionLayers.InverseNormalizingFlowLayer *)

NoLayer == [built |-> FALSE, err |-> "none", flow_types |-> <<>>,
            n_dims |-> 0, trainable_base_dist |-> FALSE]

InverseNormalizingFlowLayer_unchecked(flow_types, n_dims, trainable_base_dist) ==
    [built |-> TRUE, err |-> "none", flow_types |-> flow_types,
     n_dims |-> n_dims, trainable_base_dist |-> trainable_base_dist]

InverseNormalizingFlowLayer(flow_types, n_dims, trainable_base_dist) ==
    IF ~(\A i \in 1..Len(flow_types) : flow_types[i] \in FLOWS)
    THEN [NoLayer EXCEPT !.err = "AssertionError"]
    ELSE [built |-> TRUE, err |-> "none", flow_types |-> flow_types,
          n_dims |-> n_dims, trainable_base_dist |-> trainable_base_dist]

get_total_param_size_flows_only(self) ==
    IF \E i \in 1..Len(self.flow_types) : self.flow_types[i] \notin FLOWS
    THEN [err |-> "KeyError", value |-> 0]
    ELSE [err |-> "none",
          value |-> SumSeq([i \in 1..Len(self.flow_types) |->
                              get_param_size(self.flow_types[i], self.n_dims)])]

get_total_param_size(self) ==
    IF \E i \in 1..Len(self.flow_types) : self.flow_types[i] \notin FLOWS
    THEN [err |-> "KeyError", value |-> 0]
    ELSE LET num_flow_params ==
                 SumSeq([i \in 1..Len(self.flow_types) |->
                            get_param_size(self.flow_types[i], self.n_dims)])
             base_dist_params ==
                 IF self.trainable_base_dist THEN 2 * self.n_dims ELSE 0
         IN [err |-> "none", value |-> num_flow_params + base_dist_params]

_get_bijector_user_order(t, flow_types_arg, n_dims) ==
    LET flow_types == flow_types_arg
        param_sizes == [i \in 1..Len(flow_types) |->
                           get_param_size(flow_types[i], n_dims)]
        split_beginnings == [i \in 1..Len(param_sizes) |->
                                SumSeq(SubSeq(param_sizes, 1, i - 1))]
    IN IF SumSeq(param_sizes) # Len(t)
       THEN [err |-> "AssertionError", chain |-> <<>>]
       ELSE [err |-> "none",
             chain |-> [i \in 1..Len(flow_types) |->
                          [flow_type |-> flow_types[i],
                           params |-> PySlice(t, split_beginnings[i],
                                              split_beginnings[i] + param_sizes[i]),
                           n_dims |-> n_dims]]]

_get_bijector_inclusive_offsets(t, flow_types_arg, n_dims) ==
    LET flow_types == reversed(flow_types_arg)
        param_sizes == [i \in 1..Len(flow_types) |->
                           get_param_size(flow_types[i], n_dims)]
        split_beginnings == [i \in 1..Len(param_sizes) |->
                                SumSeq(SubSeq(param_sizes, 1, i))]
    IN IF SumSeq(param_sizes) # Len(t)
       THEN [err |-> "AssertionError", chain |-> <<>>]
       ELSE [err |-> "none",
             chain |-> [i \in 1..Len(flow_types) |->
                          [flow_type |-> flow_types[i],
                           params |-> PySlice(t, split_beginnings[i],
                                              split_beginnings[i] + param_sizes[i]),
                           n_dims |-> n_dims]]]

_get_bijector(t, flow_types_arg, n_dims) ==
    LET flow_types == reversed(flow_types_arg)
        param_sizes == [i \in 1..Len(flow_types) |->
                           get_param_size(flow_types[i], n_dims)]
        split_beginnings == [i \in 1..Len(param_sizes) |->
                                SumSeq(SubSeq(param_sizes, 1, i - 1))]
    IN IF SumSeq(param_sizes) # Len(t)
       THEN [err |-> "AssertionError", chain |-> <<>>]
       ELSE [err |-> "none",
             chain |-> [i \in 1..Len(flow_types) |->
                          [flow_type |-> flow_types[i],
                           params |-> PySlice(t, split_beginnings[i],
                                              split_beginnings[i] + param_sizes[i]),
                           n_dims |-> n_dims]]]

\* loc and scale_diag are sequences of terms: "ref" reads entry i of the
\* parameter tensor, "zero" is a constant 0.  unit_scale: no scale_diag is
\* passed, the scale is the identity.
_get_base_dist(t, n_dims, trainable) ==
    IF trainable
    THEN [loc |-> [i \in 1..Len(PySlice(t, 0, n_dims)) |->
                      [k |-> "ref", i |-> PySlice(t, 0, n_dims)[i]]],
          scale_diag |-> [i \in 1..Len(PySlice(t, n_dims, 2 * n_dims)) |->
                      [k |-> "ref", i |-> PySlice(t, n_dims, 2 * n_dims)[i]]],
          unit_scale |-> FALSE]
    ELSE [loc |-> [i \in 1..Len(PySlice(t, 0, 1)) |-> [k |-> "zero", i |-> 0]],
          scale_diag |-> <<>>,
          unit_scale |-> TRUE]

\* tfp.bijectors.Chain(chain).forward: the last bijector of the list is
\* applied first
Chain_forward_order(chain) == reversed([i \in 1..Len(chain) |-> chain[i].flow_type])

NoBase == [loc |-> <<>>, scale_diag |-> <<>>, unit_scale |-> FALSE]

NoDist == [called |-> FALSE, t_len |-> 0, err |-> "none",
           base |-> NoBase, chain |-> <<>>]

make_flow_dist(self, t) ==
    LET base == _get_base_dist(t, self.n_dims, self.trainable_base_dist)
        bij == _get_bijector(IF self.trainable_base_dist
                             THEN PySliceFrom(t, 2 * self.n_dims) ELSE t,
                             self.flow_types, self.n_dims)
    IN IF bij.err # "none"
       THEN [called |-> TRUE, t_len |-> Len(t), err |-> bij.err,
             base |-> NoBase, chain |-> <<>>]
       ELSE [called |-> TRUE, t_len |-> Len(t), err |-> "none",
             base |-> base, chain |-> bij.chain]

-----------------------------------------------------------------------------
(* DistributionLayers.MeanFieldLayer *)

MeanFieldLayerParams == {"n_dims", "uniform_scale", "dtype"}

NoMeanField == [err |-> "none", n_dims |-> 0, uniform_scale |-> FALSE]

\* MeanFieldLayer(**kwargs): kwargs maps argument names to values; a name
\* that is not a parameter of __init__ raises TypeError, uniform_scale
\* defaults to False
MeanFieldLayer(kwargs) ==
    IF ~(DOMAIN kwargs \subseteq MeanFieldLayerParams)
    THEN [NoMeanField EXCEPT !.err = "TypeError"]
    ELSE [err |-> "none", n_dims |-> kwargs["n_dims"],
          uniform_scale |-> IF "uniform_scale" \in DOMAIN kwargs
                            THEN kwargs["uniform_scale"] ELSE FALSE]

MeanFieldLayer_get_total_param_size(self) ==
    IF self.uniform_scale THEN self.n_dims ELSE 2 * self.n_dims

\* the distribution made by _get_distribution_fn from a tensor t
_get_distribution_fn(n_dims, uniform_scale, t) ==
    IF uniform_scale
    THEN [loc |-> PySlice(t, 0, n_dims), scale_raw |-> <<>>, unit_scale |-> TRUE]
    ELSE [loc |-> PySlice(t, 0, n_dims),
          scale_raw |-> PySlice(t, n_dims, 2 * n_dims), unit_scale |-> FALSE]

-----------------------------------------------------------------------------
(* BayesianNFEstimator: prior and posterior factories *)

NoCall == [called |-> FALSE, kernel_size |-> 0, bias_size |-> 0,
           trainable |-> FALSE, err |-> "none", n_vars |-> 0,
           vars_trainable |-> FALSE, initializer |-> "",
           field |-> NoMeanField,
           d |-> [loc |-> <<>>, scale_raw |-> <<>>, unit_scale |-> FALSE]]

\* _get_prior_fn(trainable)(kernel_size, bias_size): a VariableLayer of
\* `size` variables feeding a MeanFieldLayer
prior_fn(trainable, kernel_size, bias_size) ==
    LET size == kernel_size + bias_size
        mf == MeanFieldLayer([n_dims |-> size, scale |-> 1, dtype |-> "None"])
    IN IF mf.err # "none"
       THEN [NoCall EXCEPT !.called = TRUE, !.kernel_size = kernel_size,
                           !.bias_size = bias_size, !.trainable = trainable,
                           !.err = mf.err]
       ELSE [called |-> TRUE, kernel_size |-> kernel_size,
             bias_size |-> bias_size, trainable |-> trainable,
             err |-> "none", n_vars |-> size, vars_trainable |-> trainable,
             initializer |-> "zeros", field |-> mf,
             d |-> _get_distribution_fn(mf.n_dims, mf.uniform_scale, Tensor(size))]

\* _get_posterior_fn()(kernel_size, bias_size): a VariableLayer of
\* 2 * size trainable variables feeding a MeanFieldLayer
posterior_fn(kernel_size, bias_size) ==
    LET size == kernel_size + bias_size
        mf == MeanFieldLayer([n_dims |-> size, scale |-> "None", dtype |-> "None"])
    IN IF mf.err # "none"
       THEN [NoCall EXCEPT !.called = TRUE, !.kernel_size = kernel_size,
                           !.bias_size = bias_size, !.trainable = TRUE,
                           !.err = mf.err]
       ELSE [called |-> TRUE, kernel_size |-> kernel_size,
             bias_size |-> bias_size, trainable |-> TRUE,
             err |-> "none", n_vars |-> 2 * size, vars_trainable |-> TRUE,
             initializer |-> "normal", field |-> mf,
             d |-> _get_distribution_fn(mf.n_dims, mf.uniform_scale, Tensor(2 * size))]

-----------------------------------------------------------------------------
(* BayesianNFEstimator: dense layers, loss and constructor *)

GaussianNoise(stddev) ==
    [kind |-> "GaussianNoise", units |-> 0, activation |-> "",
     stddev |-> stddev, kl_weight |-> 0, kl_use_exact |-> FALSE,
     trainable_prior |-> FALSE]

DenseVariational(units, trainable_prior, kl_weight, kl_use_exact, activation) ==
    [kind |-> "DenseVariational", units |-> units, activation |-> activation,
     stddev |-> 0, kl_weight |-> kl_weight, kl_use_exact |-> kl_use_exact,
     trainable_prior |-> trainable_prior]

\* the distribution layer as the last entry of the Sequential's layer list
DistLayerEntry ==
    [kind |-> "InverseNormalizingFlowLayer", units |-> 0, activation |-> "",
     stddev |-> 0, kl_weight |-> 0, kl_use_exact |-> FALSE,
     trainable_prior |-> FALSE]

\* hidden_sizes is [type, items]: the Python type of the value and its entries
_get_dense_layers_always_noise(hidden_sizes, output_size, trainable_prior, kl_weight_scale, kl_use_exact, x_noise_std, activation) ==
    IF hidden_sizes.type # "tuple" THEN [err |-> "AssertionError", layers |-> <<>>]
    ELSE IF ~(kl_weight_scale <= 1) THEN [err |-> "AssertionError", layers |-> <<>>]
    ELSE IF ~(x_noise_std >= 0) THEN [err |-> "AssertionError", layers |-> <<>>]
    ELSE LET noise_reg == <<GaussianNoise(x_noise_std)>>
             hidden == [i \in 1..Len(hidden_sizes.items) |->
                          DenseVariational(hidden_sizes.items[i], trainable_prior,
                                           kl_weight_scale, kl_use_exact, activation)]
             output == <<DenseVariational(output_size, trainable_prior,
                                          kl_weight_scale, kl_use_exact, "linear")>>
         IN [err |-> "none", layers |-> noise_reg \o hidden \o output]

_get_dense_layers(hidden_sizes, output_size, trainable_prior, kl_weight_scale, kl_use_exact, x_noise_std, activation) ==
    IF hidden_sizes.type # "tuple" THEN [err |-> "AssertionError", layers |-> <<>>]
    ELSE IF ~(kl_weight_scale <= 1) THEN [err |-> "AssertionError", layers |-> <<>>]
    ELSE IF ~(x_noise_std >= 0) THEN [err |-> "AssertionError", layers |-> <<>>]
    ELSE LET noise_reg == IF x_noise_std # 0
                          THEN <<GaussianNoise(x_noise_std)>> ELSE <<>>
             hidden == [i \in 1..Len(hidden_sizes.items) |->
                          DenseVariational(hidden_sizes.items[i], trainable_prior,
                                           kl_weight_scale, kl_use_exact, activation)]
             output == <<DenseVariational(output_size, trainable_prior,
                                          kl_weight_scale, kl_use_exact, "linear")>>
         IN [err |-> "none", layers |-> noise_reg \o hidden \o output]

\* the closure returned by _get_neg_log_likelihood: whether it holds a
\* GaussianNoise layer, and that layer's stddev
_get_neg_log_likelihood(y_noise_std) ==
    IF y_noise_std # 0
    THEN [has_noise_layer |-> TRUE, stddev |-> y_noise_std]
    ELSE [has_noise_layer |-> FALSE, stddev |-> 0]

NoLoss == [has_noise_layer |-> FALSE, stddev |-> 0]

NoArgs == [n_dims |-> 0, kl_weight_scale |-> 0, kl_use_exact |-> FALSE,
           flow_types |-> <<>>, hidden_sizes |-> [type |-> "tuple", items |-> <<>>],
           trainable_base_dist |-> FALSE, activation |-> "",
           x_noise_std |-> 0, y_noise_std |-> 0, trainable_prior |-> FALSE]

NoModel == [status |-> "none", err |-> "none", args |-> NoArgs,
            dist_layer |-> NoLayer, sized |-> FALSE, layers |-> <<>>,
            compiled |-> FALSE, loss |-> NoLoss]

\* BayesianNFEstimator.__init__: status "ok" is a constructed estimator,
\* "failed" a constructor that raised err; the fields hold what had been
\* built when it raised.  sized: get_total_param_size has been evaluated.
BayesianNFEstimator(a) ==
    LET dist_layer == InverseNormalizingFlowLayer(a.flow_types, a.n_dims,
                                                  a.trainable_base_dist)
        output_size == get_total_param_size(dist_layer)
        dense == _get_dense_layers(a.hidden_sizes, output_size.value,
                                   a.trainable_prior, a.kl_weight_scale,
                                   a.kl_use_exact, a.x_noise_std, a.activation)
        failed == [NoModel EXCEPT !.status = "failed", !.args = a]
    IN IF dist_layer.err # "none"
       THEN [failed EXCEPT !.err = dist_layer.err]
       ELSE IF output_size.err # "none"
       THEN [failed EXCEPT !.err = output_size.err, !.dist_layer = dist_layer]
       ELSE IF dense.err # "none"
       THEN [failed EXCEPT !.err = dense.err, !.dist_layer = dist_layer,
                           !.sized = TRUE]
       ELSE [status |-> "ok", err |-> "none", args |-> a,
             dist_layer |-> dist_layer, sized |-> TRUE,
             layers |-> dense.layers \o <<DistLayerEntry>>,
             compiled |-> TRUE,
             loss |-> _get_neg_log_likelihood(a.y_noise_std)]

-----------------------------------------------------------------------------
(* The loss closure and the learning phase *)

\* tf.keras.layers.GaussianNoise called without a training argument: it
\* reads the process-wide learning phase; eps is the standard normal draw
GaussianNoise_call(stddev, inputs, phase, eps) ==
    IF phase = 1 THEN inputs + stddev * eps ELSE inputs

\* log_prob of Normal(loc, 1) at y, as 2 * log_prob + log(2 * pi)
log_prob(p_y, y) == 0 - (y - p_y.loc) * (y - p_y.loc)

\* the target the lambda returned by _get_neg_log_likelihood hands to
\* p_y.log_prob: y_noise_layer(y) when it holds a noise layer, else y
loss_target_always_noise(loss, y, phase, eps) ==
    IF loss.has_noise_layer THEN y + loss.stddev * eps ELSE y

loss_target(loss, y, phase, eps) ==
    IF loss.has_noise_layer
    THEN GaussianNoise_call(loss.stddev, y, phase, eps)
    ELSE y

\* the lambda returned by _get_neg_log_likelihood, applied to (y, p_y)
neg_log_likelihood(loss, y, p_y, phase, eps) ==
    0 - log_prob(p_y, loss_target(loss, y, phase, eps))

NoFit == [called |-> FALSE, err |-> "none", trained |-> FALSE]

\* fit(x, y) on x of trailing size x_dim: the first call builds the layers;
\* DenseVariational.build makes the posterior, then the prior, of the layer
\* from (last_dim * units, units).  Result: [fit, posterior, prior].
FirstDense(layers) ==
    layers[CHOOSE i \in 1..Len(layers) :
              /\ layers[i].kind = "DenseVariational"
              /\ \A j \in 1..(i - 1) : layers[j].kind # "DenseVariational"]

fit_model(self, x_dim) ==
    LET first == FirstDense(self.layers)
        post == posterior_fn(x_dim * first.units, first.units)
        prior == prior_fn(first.trainable_prior, x_dim * first.units, first.units)
    IN IF post.err # "none"
       THEN [fit |-> [called |-> TRUE, err |-> post.err, trained |-> FALSE],
             posterior |-> post, prior |-> NoCall]
       ELSE IF prior.err # "none"
       THEN [fit |-> [called |-> TRUE, err |-> prior.err, trained |-> FALSE],
             posterior |-> post, prior |-> prior]
       ELSE [fit |-> [called |-> TRUE, err |-> "none", trained |-> TRUE],
             posterior |-> post, prior |-> prior]

-----------------------------------------------------------------------------
(* Inputs *)

FlowTypeLists == SeqsUpTo(FlowTypeInputs, MaxFlows)
DimInputs == 1..MaxDims
HiddenInputs ==
    {[type |-> "tuple", items |-> s] : s \in SeqsUpTo(1..MaxUnits, MaxHidden)}
    \cup {[type |-> "list", items |-> <<1>>]}
NoiseStdInputs == {-1, 0, 1}
KlInputs == {0, 1, 2}
Activations == {"tanh", "relu"}
YInputs == {0, 1}
EpsInputs == {-1, 0, 1}
PInputs == {[loc |-> 0]}

ArgInputs ==
    [n_dims : DimInputs, kl_weight_scale : KlInputs, kl_use_exact : BOOLEAN,
     flow_types : FlowTypeLists, hidden_sizes : HiddenInputs,
     trainable_base_dist : BOOLEAN, activation : Activations,
     x_noise_std : NoiseStdInputs, y_noise_std : NoiseStdInputs,
     trainable_prior : BOOLEAN]

\* the defaults of BayesianNFEstimator.__init__, n_dims = 1
DefaultArgs ==
    [n_dims |-> 1, kl_weight_scale |-> 1, kl_use_exact |-> FALSE,
     flow_types |-> <<"radial", "radial">>,
     hidden_sizes |-> [type |-> "tuple", items |-> <<10>>],
     trainable_base_dist |-> TRUE, activation |-> "tanh",
     x_noise_std |-> 0, y_noise_std |-> 0, trainable_prior |-> FALSE]

-----------------------------------------------------------------------------
(* Actions *)

NewLayer ==
    /\ \E ft \in FlowTypeLists, n \in DimInputs, tr \in BOOLEAN :
          layer' = InverseNormalizingFlowLayer(ft, n, tr)
    /\ dist' = NoDist
    /\ UNCHANGED <<model, learning_phase, evals, fit, prior_call, posterior_call>>

\* the layer applied to a parameter tensor of trailing size L
CallLayer ==
    /\ layer.built
    /\ \E L \in 0..MaxTLen : dist' = make_flow_dist(layer, Tensor(L))
    /\ UNCHANGED <<layer, model, learning_phase, evals, fit, prior_call, posterior_call>>

\* the estimator under study is constructed once
NewEstimator ==
    /\ model.status = "none"
    /\ \E a \in ArgInputs : model' = BayesianNFEstimator(a)
    /\ UNCHANGED <<layer, dist, learning_phase, evals, fit, prior_call, posterior_call>>

SetLearningPhase ==
    /\ \E v \in {0, 1} : learning_phase' = v
    /\ UNCHANGED <<layer, dist, model, evals, fit, prior_call, posterior_call>>

\* model.loss(y, p_y); evals keeps the last MaxEvals evaluations
EvalLoss ==
    /\ model.status = "ok"
    /\ \E y \in YInputs, p \in PInputs, eps \in EpsInputs :
          LET e == [y |-> y, p_y |-> p, phase |-> learning_phase, eps |-> eps,
                    target |-> loss_target(model.loss, y, learning_phase, eps),
                    value |-> neg_log_likelihood(model.loss, y, p,
                                                 learning_phase, eps)]
          IN evals' = IF Len(evals) < MaxEvals THEN Append(evals, e)
                      ELSE Append(Tail(evals), e)
    /\ UNCHANGED <<layer, dist, model, learning_phase, fit, prior_call, posterior_call>>

\* model.fit: Keras sets the training phase for the duration of the call
\* only, the process-wide flag is as before when it returns or raises
Fit ==
    /\ model.status = "ok"
    /\ \E x_dim \in DimInputs :
          LET r == fit_model(model, x_dim)
          IN /\ fit' = r.fit
             /\ posterior_call' = r.posterior
             /\ prior_call' = r.prior
    /\ UNCHANGED <<layer, dist, model, learning_phase, evals>>

CallPriorFn ==
    /\ \E tr \in BOOLEAN, k \in 1..MaxKernel, b \in 0..MaxBias :
          prior_call' = prior_fn(tr, k, b)
    /\ UNCHANGED <<layer, dist, model, learning_phase, evals, fit, posterior_call>>

CallPosteriorFn ==
    /\ \E k \in 1..MaxKernel, b \in 0..MaxBias :
          posterior_call' = posterior_fn(k, b)
    /\ UNCHANGED <<layer, dist, model, learning_phase, evals, fit, prior_call>>

-----------------------------------------------------------------------------
(* Specifications *)

InitRest ==
    /\ layer = NoLayer
    /\ dist = NoDist
    /\ learning_phase = 0
    /\ evals = <<>>
    /\ fit = NoFit
    /\ prior_call = NoCall
    /\ posterior_call = NoCall

\* the distribution layer on its own
InitLayer == InitRest /\ model = NoModel
NextLayer == NewLayer \/ CallLayer
SpecLayer == InitLayer /\ [][NextLayer]_vars

\* the estimator constructor
InitEst == InitRest /\ model = NoModel
NextEst == NewEstimator
SpecEst == InitEst /\ [][NextEst]_vars

\* a constructed estimator: fit, loss evaluations, learning-phase toggles
InitLoss ==
    /\ InitRest
    /\ \E s \in NoiseStdInputs :
          model = BayesianNFEstimator([DefaultArgs EXCEPT !.y_noise_std = s])
NextLoss == SetLearningPhase \/ EvalLoss \/ Fit
SpecLoss == InitLoss /\ [][NextLoss]_vars

\* the prior and posterior factories on their own
InitBayes == InitRest /\ model = NoModel
NextBayes == CallPriorFn \/ CallPosteriorFn
SpecBayes == InitBayes /\ [][NextBayes]_vars

-----------------------------------------------------------------------------
(* Properties *)

\* C1: the unit count of the final dense layer built by the estimator
\* constructor equals get_total_param_size() of its distribution layer,
\* which is the sum of the flows' param sizes plus 2 * n_dims when the base
\* distribution is trainable.
C1_OutputUnitsEqualTotalParamSize ==
    model.status = "ok" =>
        LET a == model.args
            last == model.layers[Len(model.layers) - 1]
            n(name) == Cardinality({i \in 1..Len(a.flow_types) :
                                       a.flow_types[i] = name})
            total == n("radial") * get_param_size("radial", a.n_dims)
                     + n("planar") * get_param_size("planar", a.n_dims)
                     + n("affine") * get_param_size("affine", a.n_dims)
                     + (IF a.trainable_base_dist THEN 2 * a.n_dims ELSE 0)
        IN /\ last.kind = "DenseVariational"
           /\ last.units = get_total_param_size(model.dist_layer).value
           /\ last.units = total

C1_Witness ==
    /\ model.status = "ok"
    /\ Len(model.args.flow_types) = 2
    /\ model.args.flow_types[1] # model.args.flow_types[2]
    /\ model.args.trainable_base_dist
    /\ model.args.n_dims = 2

\* C2: building the output distribution from a parameter tensor whose
\* trailing size differs from the required total parameter size always fails
\* with the size-mismatch assertion.
C2_WrongSizeAlwaysFails ==
    (dist.called /\ dist.t_len # get_total_param_size(layer).value)
        => dist.err = "AssertionError"

\* C3: the list of bijectors handed to the chain is the user's flow_types in
\* reverse (position i holds type f[k-1-i]), so that with the last-listed
\* bijector applied first the flows act on a base sample in the user's order.
C3_ChainIsReversedUserOrder ==
    (dist.called /\ dist.err = "none") =>
        LET f == layer.flow_types
            k == Len(f)
        IN /\ Len(dist.chain) = k
           /\ \A i \in 1..k : dist.chain[i].flow_type = f[k + 1 - i]
           /\ Chain_forward_order(dist.chain) = f

C3_Witness ==
    /\ dist.called
    /\ dist.err = "none"
    /\ Len(layer.flow_types) = 2
    /\ layer.flow_types[1] # layer.flow_types[2]

\* C4: a flow_types list with a name that is not a key of FLOWS makes the
\* constructor fail at the layer's assertion, before a distribution layer
\* exists, a parameter size is computed or a dense layer is built.
C4_UnknownFlowFailsFirst ==
    (/\ model.status # "none"
     /\ \E i \in 1..Len(model.args.flow_types) :
           model.args.flow_types[i] \notin FLOWS)
        => /\ model.status = "failed"
           /\ model.err = "AssertionError"
           /\ ~model.dist_layer.built
           /\ ~model.sized
           /\ model.layers = <<>>
           /\ ~model.compiled

C4_Witness ==
    /\ model.status = "failed"
    /\ \E i \in 1..Len(model.args.flow_types) :
          model.args.flow_types[i] \notin FLOWS
    /\ model.args.hidden_sizes.type = "tuple"
    /\ model.args.kl_weight_scale <= 1
    /\ model.args.x_noise_std >= 0
    /\ model.args.y_noise_std >= 0

\* C5: kl_weight_scale > 1, a negative x_noise_std, a negative y_noise_std
\* and a hidden_sizes that is not a tuple each make the constructor fail; no
\* estimator with such a value is assembled and compiled.
C5_InvalidHyperparametersRejected ==
    (/\ model.status # "none"
     /\ \/ model.args.kl_weight_scale > 1
        \/ model.args.x_noise_std < 0
        \/ model.args.y_noise_std < 0
        \/ model.args.hidden_sizes.type # "tuple")
        => /\ model.status = "failed"
           /\ ~model.compiled

\* C6: the loss perturbs the target with output noise exactly when the
\* learning phase is training: in inference the target is y itself, and two
\* inference evaluations on the same (y, p_y) return the same value; in
\* training the target is y plus y_noise_std times that evaluation's draw.
C6_NoiseOnlyInTrainingPhase ==
    /\ \A i \in 1..Len(evals) :
          LET e == evals[i]
          IN /\ e.target = IF e.phase = 1
                           THEN e.y + model.args.y_noise_std * e.eps ELSE e.y
             /\ e.value = 0 - log_prob(e.p_y, e.target)
    /\ \A i, j \in 1..Len(evals) :
          (/\ evals[i].phase = 0 /\ evals[j].phase = 0
           /\ evals[i].y = evals[j].y /\ evals[i].p_y = evals[j].p_y)
              => evals[i].value = evals[j].value

C6_Witness ==
    /\ fit.called
    /\ model.args.y_noise_std # 0
    /\ learning_phase = 0
    /\ Len(evals) = 3
    /\ evals[1].phase = 1 /\ evals[1].value # 0 - log_prob(evals[1].p_y, evals[1].y)
    /\ evals[2].phase = 0 /\ evals[3].phase = 0
    /\ evals[2].y = evals[3].y
    /\ evals[2].eps # evals[3].eps

\* C7: _get_dense_layers returns len(hidden_sizes) + 1 layers when
\* x_noise_std is 0 and len(hidden_sizes) + 2 when it is positive: the noise
\* layer first (only then), one hidden layer per entry of hidden_sizes in
\* order, and a single output layer last.
C7_DenseLayerCountAndOrder ==
    model.status = "ok" =>
        LET a == model.args
            h == a.hidden_sizes.items
            dense == SubSeq(model.layers, 1, Len(model.layers) - 1)
            off == IF a.x_noise_std > 0 THEN 1 ELSE 0
        IN /\ Len(dense) = Len(h) + 1 + off
           /\ off = 1 => /\ dense[1].kind = "GaussianNoise"
                         /\ dense[1].stddev = a.x_noise_std
           /\ \A i \in 1..Len(h) :
                 /\ dense[off + i].kind = "DenseVariational"
                 /\ dense[off + i].units = h[i]
                 /\ dense[off + i].activation = a.activation
           /\ dense[Len(dense)].kind = "DenseVariational"
           /\ dense[Len(dense)].activation = "linear"

C7_Witness ==
    /\ model.status = "ok"
    /\ model.args.x_noise_std > 0
    /\ Len(model.args.hidden_sizes.items) = 2
    /\ model.args.hidden_sizes.items[1] # model.args.hidden_sizes.items[2]

\* C8: for a parameter tensor of length get_total_param_size() every index
\* is read by exactly one consumer: with a trainable base [0, n_dims) is the
\* base location and [n_dims, 2 * n_dims) the base scale, and the rest is cut
\* into contiguous slices that start at the exclusive prefix sums of the
\* param sizes of the reversed flows, slice i going to reversed flow i.
C8_ParameterIndicesPartitioned ==
    (dist.called /\ dist.t_len = get_total_param_size(layer).value) =>
        LET n == layer.n_dims
            r == reversed(layer.flow_types)
            base_len == IF layer.trainable_base_dist THEN 2 * n ELSE 0
            size(i) == get_param_size(r[i], n)
            start(i) == base_len + SumSeq([j \in 1..(i - 1) |-> size(j)])
            chainUses(x) == {cp \in (1..Len(dist.chain)) \X (1..dist.t_len) :
                                /\ cp[2] <= Len(dist.chain[cp[1]].params)
                                /\ dist.chain[cp[1]].params[cp[2]] = x}
            locUses(x) == {p \in 1..Len(dist.base.loc) :
                              /\ dist.base.loc[p].k = "ref"
                              /\ dist.base.loc[p].i = x}
            scaleUses(x) == {p \in 1..Len(dist.base.scale_diag) :
                                /\ dist.base.scale_diag[p].k = "ref"
                                /\ dist.base.scale_diag[p].i = x}
        IN /\ dist.err = "none"
           /\ Len(dist.chain) = Len(r)
           /\ \A i \in 1..Len(r) :
                 /\ dist.chain[i].flow_type = r[i]
                 /\ dist.chain[i].params = [p \in 1..size(i) |-> start(i) + p - 1]
           /\ layer.trainable_base_dist =>
                 /\ dist.base.loc = [p \in 1..n |-> [k |-> "ref", i |-> p - 1]]
                 /\ dist.base.scale_diag =
                        [p \in 1..n |-> [k |-> "ref", i |-> n + p - 1]]
           /\ \A x \in 0..(dist.t_len - 1) :
                 Cardinality(chainUses(x)) + Cardinality(locUses(x))
                     + Cardinality(scaleUses(x)) = 1

C8_Witness ==
    /\ dist.called
    /\ dist.t_len = get_total_param_size(layer).value
    /\ layer.trainable_base_dist
    /\ layer.n_dims = 2
    /\ Len(layer.flow_types) = 2
    /\ layer.flow_types[1] # layer.flow_types[2]

\* C9: with trainable_base_dist False the base distribution has exactly
\* n_dims independent components, each with zero mean and unit scale,
\* whatever the parameter tensor holds.
C9_FixedBaseHasNDimsComponents ==
    (dist.called /\ dist.err = "none" /\ ~layer.trainable_base_dist) =>
        /\ Len(dist.base.loc) = layer.n_dims
        /\ \A i \in 1..Len(dist.base.loc) : dist.base.loc[i].k = "zero"
        /\ dist.base.unit_scale

\* C10: the prior and posterior factories construct successfully and are
\* parameter-count consistent with their MeanFieldLayer: the prior is
\* backed by size variables (trainable only if trainable_prior) and yields
\* size unit-scale Gaussians; the posterior is backed by 2 * size trainable
\* variables, the get_total_param_size() of its MeanFieldLayer.
C10_FactoriesConstructAndAreConsistent ==
    /\ prior_call.called =>
          LET size == prior_call.kernel_size + prior_call.bias_size
          IN /\ prior_call.err = "none"
             /\ prior_call.n_vars = size
             /\ prior_call.vars_trainable = prior_call.trainable
             /\ prior_call.initializer = "zeros"
             /\ prior_call.d.unit_scale
             /\ Len(prior_call.d.loc) = size
             /\ MeanFieldLayer_get_total_param_size(prior_call.field) = size
    /\ posterior_call.called =>
          LET size == posterior_call.kernel_size + posterior_call.bias_size
          IN /\ posterior_call.err = "none"
             /\ posterior_call.n_vars = 2 * size
             /\ posterior_call.vars_trainable
             /\ ~posterior_call.d.unit_scale
             /\ Len(posterior_call.d.loc) = size
             /\ Len(posterior_call.d.scale_raw) = size
             /\ MeanFieldLayer_get_total_param_size(posterior_call.field) = 2 * size

====
